---- MODULE Spec2Model ----
(***************************************************************************)
(* The customer-support workflow of langgraph_workflow.py: one             *)
(* process_query invocation at a time runs the compiled graph              *)
(* classifier -> _route_query -> (rag_responder | escalation) -> END over  *)
(* a WorkflowState value.  The classification backend, the semantic        *)
(* search, the generation model and the wall clock are the environment:    *)
(* their outcomes are drawn from the sets below.                           *)
(*                                                                         *)
(* Text is a sequence of tokens: a literal piece of a Python string is one *)
(* token, an interpolated value ({query}, {str(e)}, ...) is one token, and *)
(* the empty string is the empty sequence.  Confidence is an integer       *)
(* number of hundredths (0.7 is 70).                                       *)
(***************************************************************************)
EXTENDS Integers, Sequences, FiniteSets, TLC

VARIABLES
    pc,        \* position of process_query: "idle", a node name, "route", "END", "returned", "raised"
    state,     \* the WorkflowState threaded through the graph
    result,    \* what process_query returned last
    executed,  \* the nodes this invocation has executed, in order
    calls,     \* the external capability calls of this invocation and their outcomes, in order
    events,    \* the trace events (prints) of this invocation, in order
    agent_result, \* the dict the terminal node's agent call returned in this invocation
    received,  \* the dict the last node was called with: its value at the call and at the return
    th,        \* the chat request handlers of api_server.py, each with its request and reply
    wstate,    \* the WorkflowState of each handler's process_query invocation
    agent_call \* the last direct call of an EscalationAgent method: its arguments and what it returned

vars == <<pc, state, result, executed, calls, events, agent_result, received,
          th, wstate, agent_call>>

\* The variables of a direct process_query call, those of the API handlers
\* and those of a direct agent call.
cli_vars == <<pc, state, result, executed, calls, events, agent_result, received>>

api_vars == <<th, wstate>>

agent_vars == <<agent_call>>

---------------------------------------------------------------------------
(* Domains and program constants                                           *)

Categories == {"products", "returns", "general", "unhandled"}

ConfMin == 0

ConfMax == 100

RouteThreshold == 70

ClarifyThreshold == 50

ReasonThreshold == 70

K == 4

PreviewLen == 200

MaxTimestamp == 2

Confidences == ConfMin..ConfMax

Queries == {"What is the price of the SmartWatch Pro X?", "The thing is broken"}

Reasonings == {<<"Inappropriate request">>, <<"Too vague to classify accurately">>}

Timestamps == 1..MaxTimestamp

support_email == "support@techgear.com"

support_hours == "Mon-Sat, 9AM-6PM IST"

response_time == "24 hours"

EmptyDict == <<>>

---------------------------------------------------------------------------
(* Outcomes of the external capabilities                                   *)

Ok(v) == [ok |-> TRUE, val |-> v, err |-> ""]

Err(e) == [ok |-> FALSE, val |-> <<>>, err |-> e]

\* What the classification backend hands to the structured-output parser:
\* a raw value (possibly outside the schema's domains), no value at all, or
\* an exception.
BackendOutcomes ==
    [kind : {"value"},
     category : Categories \cup {"billing"},
     confidence : Confidences \cup {ConfMin - 1, ConfMax + 1},
     reasoning : Reasonings,
     error : {""}]
    \cup
    [kind : {"none"}, category : {""}, confidence : {0}, reasoning : {<<>>}, error : {""}]
    \cup
    [kind : {"throw"}, category : {""}, confidence : {0}, reasoning : {<<>>},
     error : {"503 backend unavailable"}]

\* A fragment of the index: its text and the length of its page_content.
Fragments == {[text |-> "SmartWatch Pro X", len |-> 150],
              [text |-> "Return policy", len |-> 250]}

FragmentLists == UNION {[1..n -> Fragments] : n \in 0..K}

SearchOutcomes ==
    [kind : {"docs"}, docs : FragmentLists, error : {""}]
    \cup
    [kind : {"throw"}, docs : {<<>>}, error : {"chroma: collection not found"}]

\* The generation model returns a text or raises; a returned text is taken
\* to be non-empty (generate(context, query) -> text).
GenerationOutcomes ==
    [kind : {"text"}, text : {<<"The SmartWatch Pro X is priced at 15,999.">>}, error : {""}]
    \cup
    [kind : {"throw"}, text : {<<>>}, error : {"429 quota exceeded"}]

---------------------------------------------------------------------------
(* Dictionaries                                                            *)

\* dict.get(key, default)
Get(d, key, default) == IF key \in DOMAIN d THEN d[key] ELSE default

---------------------------------------------------------------------------
(* classifier_agent.py                                                     *)

\* The pydantic schema: category is one of the four literals and
\* 0.0 <= confidence <= 1.0.
QueryClassification(v) ==
    /\ v.category \in Categories
    /\ v.confidence >= ConfMin
    /\ v.confidence <= ConfMax

\* Variant: the backend's value is taken as it comes, unvalidated.
chain_invoke_NoValidation(query, out) ==
    IF out.kind = "throw" THEN Err(out.error)
    ELSE IF out.kind = "none" THEN Err("AttributeError")
    ELSE Ok([category |-> out.category,
             confidence |-> out.confidence,
             reasoning |-> out.reasoning])

\* self.chain.invoke and the reads of result.category/.confidence/.reasoning:
\* an exception of the backend, a value the schema rejects and a missing
\* value all raise inside the try block.
chain_invoke(query, out) ==
    IF out.kind = "throw" THEN Err(out.error)
    ELSE IF out.kind = "none" THEN Err("AttributeError")
    ELSE IF ~QueryClassification(out) THEN Err("ValidationError")
    ELSE Ok([category |-> out.category,
             confidence |-> out.confidence,
             reasoning |-> out.reasoning])

\* Variant: the fallback keeps the workflow's default category.
classify_fallback_General(e) ==
    [category |-> "general",
     confidence |-> 0,
     reasoning |-> <<"Classification error: ", e>>]

\* The dict classify returns when the try block raised.
classify_fallback(e) ==
    [category |-> "unhandled",
     confidence |-> 0,
     reasoning |-> <<"Classification error: ", e>>]

\* Variant: no except clause, the failure leaves classify.
classify_Propagates(query, out) ==
    LET r == chain_invoke(query, out)
    IN  IF r.ok THEN Ok(r.val) ELSE Err(r.err)

classify(query, out) ==
    LET r == chain_invoke(query, out)
    IN  IF r.ok THEN Ok(r.val) ELSE Ok(classify_fallback(r.err))

\* The backend attempts classify makes: one chain.invoke, no loop.
classify_calls(query, out) ==
    <<[cap |-> "classify", arg |-> query, out |-> out]>>

---------------------------------------------------------------------------
(* rag_responder.py                                                        *)

PromptCategories == {"products", "returns", "general"}

\* self.prompts.get(category, self.prompts["general"])
prompt_for(category) ==
    IF category \in PromptCategories THEN category ELSE "general"

\* Variant: the preview is the whole fragment.
preview_Whole(doc) ==
    [text |-> doc.text, len |-> doc.len, suffix |-> "..."]

\* doc.page_content[:200] + "..."
preview(doc) ==
    [text |-> doc.text,
     len |-> IF doc.len < PreviewLen THEN doc.len ELSE PreviewLen,
     suffix |-> "..."]

apology ==
    <<"I apologize, but I encountered an error processing your request. Please contact ",
      "support@techgear.com">>

\* Variant: the except clause answers with the error text.
respond_failure_Raw(e) ==
    [response |-> <<e>>,
     retrieved_docs |-> <<>>,
     num_docs |-> 0,
     success |-> FALSE,
     error |-> e]

respond_failure(e) ==
    [response |-> apology,
     retrieved_docs |-> <<>>,
     num_docs |-> 0,
     success |-> FALSE,
     error |-> e]

\* Variant: the previews are listed last fragment first.
respond_Reversed(query, category, s1, s2, g) ==
    IF s1.kind = "throw" THEN Ok(respond_failure(s1.error))
    ELSE IF s2.kind = "throw" THEN Ok(respond_failure(s2.error))
    ELSE IF g.kind = "throw" THEN Ok(respond_failure(g.error))
    ELSE Ok([response |-> g.text,
             retrieved_docs |->
                 [i \in 1..Len(s1.docs) |-> preview(s1.docs[Len(s1.docs) + 1 - i])],
             num_docs |-> Len(s1.docs),
             success |-> TRUE])

\* s1 is the outcome of self.retriever.invoke(query), s2 that of the
\* retriever inside rag_chain, g that of the generation model.
respond(query, category, s1, s2, g) ==
    IF s1.kind = "throw" THEN Ok(respond_failure(s1.error))
    ELSE IF s2.kind = "throw" THEN Ok(respond_failure(s2.error))
    ELSE IF g.kind = "throw" THEN Ok(respond_failure(g.error))
    ELSE Ok([response |-> g.text,
             retrieved_docs |-> [i \in 1..Len(s1.docs) |-> preview(s1.docs[i])],
             num_docs |-> Len(s1.docs),
             success |-> TRUE])

\* The capability calls respond makes, in order: the retriever, then the
\* chain (its own retriever call, then the model with the chosen prompt).
respond_calls(query, category, s1, s2, g) ==
    <<[cap |-> "search", arg |-> query, out |-> s1]>>
    \o (IF s1.kind = "throw" THEN <<>>
        ELSE <<[cap |-> "search", arg |-> query, out |-> s2]>>
             \o (IF s2.kind = "throw" THEN <<>>
                 ELSE <<[cap |-> "generate", arg |-> prompt_for(category), out |-> g]>>))

\* The retriever inside the chain reads the same read-only index with the
\* same query: it returns what the first call returned, or fails.
ChainSearchOutcomes(s1) ==
    {s1} \cup {s \in SearchOutcomes : s.kind = "throw"}

---------------------------------------------------------------------------
(* escalation_agent.py                                                     *)

\* Variant: the confidence test is inclusive.
escalation_reason_Inclusive(category, confidence) ==
    IF category = "unhandled" THEN "This query requires human assistance"
    ELSE IF confidence <= ReasonThreshold THEN "The query needs clarification"
    ELSE "This request needs specialized support"

\* Variant: the confidence is tested before the category.
escalation_reason_ConfidenceFirst(category, confidence) ==
    IF confidence < ReasonThreshold THEN "The query needs clarification"
    ELSE IF category = "unhandled" THEN "This query requires human assistance"
    ELSE "This request needs specialized support"

escalation_reason(category, confidence) ==
    IF category = "unhandled" THEN "This query requires human assistance"
    ELSE IF confidence < ReasonThreshold THEN "The query needs clarification"
    ELSE "This request needs specialized support"

HandoffHeader ==
    "I apologize, but I need to connect you with a human support agent for this request."

ClarificationHeader == "Thank you for contacting TechGear Electronics!"

\* Variant: the log record leaves the reasoning out.
escalate_NoReasoning(query, category, confidence, reasoning, now) ==
    [response |->
        <<HandoffHeader,
          query,
          escalation_reason(category, confidence),
          support_email, support_hours, response_time,
          "Thank you for your patience!">>,
     requires_escalation |-> TRUE,
     escalation_log |->
        [timestamp |-> now,
         query |-> query,
         category |-> category,
         confidence |-> confidence,
         status |-> "escalated"],
     contact_info |->
        [email |-> support_email,
         hours |-> support_hours,
         response_time |-> response_time]]

escalate(query, category, confidence, reasoning, now) ==
    [response |->
        <<HandoffHeader,
          query,
          escalation_reason(category, confidence),
          support_email, support_hours, response_time,
          "Thank you for your patience!">>,
     requires_escalation |-> TRUE,
     escalation_log |->
        [timestamp |-> now,
         query |-> query,
         category |-> category,
         confidence |-> confidence,
         reasoning |-> reasoning,
         status |-> "escalated"],
     contact_info |->
        [email |-> support_email,
         hours |-> support_hours,
         response_time |-> response_time]]

generate_clarification_request(query) ==
    [response |->
        <<ClarificationHeader,
          query,
          "Could you please provide more details about:",
          support_email, support_hours,
          "Thank you for your understanding!">>,
     requires_escalation |-> FALSE,
     needs_clarification |-> TRUE]

---------------------------------------------------------------------------
(* langgraph_workflow.py                                                   *)

\* The state process_query hands to graph.invoke.
initial_state(query) ==
    [query |-> query,
     category |-> "general",
     confidence |-> 0,
     reasoning |-> <<>>,
     retrieved_docs |-> <<>>,
     context |-> <<>>,
     response |-> <<>>,
     node_executed |-> "",
     requires_escalation |-> FALSE,
     escalation_log |-> EmptyDict]

_classifier_node(st, res) ==
    [st EXCEPT !.category = res.category,
               !.confidence = res.confidence,
               !.reasoning = res.reasoning,
               !.node_executed = "classifier"]

\* Variant: the node builds its result on a fresh state instead of the one
\* it received.
_rag_responder_node_Fresh(st, res) ==
    [initial_state(st.query) EXCEPT
        !.response = res.response,
        !.retrieved_docs = Get(res, "retrieved_docs", <<>>),
        !.node_executed = "rag_responder",
        !.requires_escalation = FALSE]

\* Variant: the node forgets to record itself in node_executed.
_rag_responder_node_NoMark(st, res) ==
    [st EXCEPT !.response = res.response,
               !.retrieved_docs = Get(res, "retrieved_docs", <<>>),
               !.requires_escalation = FALSE]

_rag_responder_node(st, res) ==
    [st EXCEPT !.response = res.response,
               !.retrieved_docs = Get(res, "retrieved_docs", <<>>),
               !.node_executed = "rag_responder",
               !.requires_escalation = FALSE]

\* Variant: the clarification test looks at the confidence alone.
escalation_result_ConfidenceOnly(st, now) ==
    IF st.confidence < ClarifyThreshold
    THEN generate_clarification_request(st.query)
    ELSE escalate(st.query, st.category, st.confidence, st.reasoning, now)

\* Variant: the node always hands off.
escalation_result_HandoffOnly(st, now) ==
    escalate(st.query, st.category, st.confidence, st.reasoning, now)

\* Variant: the clarification test is inclusive.
escalation_result_Inclusive(st, now) ==
    IF st.confidence <= ClarifyThreshold /\ st.category # "unhandled"
    THEN generate_clarification_request(st.query)
    ELSE escalate(st.query, st.category, st.confidence, st.reasoning, now)

\* The agent call the escalation node makes: the clarification request for
\* a low confidence on a valid category, the hand-off otherwise.
escalation_result(st, now) ==
    IF st.confidence < ClarifyThreshold /\ st.category # "unhandled"
    THEN generate_clarification_request(st.query)
    ELSE escalate(st.query, st.category, st.confidence, st.reasoning, now)

\* Variant: the node sets requires_escalation itself instead of reading it
\* from the agent's result.
_escalation_node_AlwaysFlag(st, now) ==
    LET res == escalation_result(st, now)
    IN  [st EXCEPT !.response = res.response,
                   !.node_executed = "escalation",
                   !.requires_escalation = TRUE,
                   !.escalation_log = Get(res, "escalation_log", EmptyDict)]

\* Variant: the node does not copy the escalation log into the state.
_escalation_node_NoLog(st, now) ==
    LET res == escalation_result(st, now)
    IN  [st EXCEPT !.response = res.response,
                   !.node_executed = "escalation",
                   !.requires_escalation = Get(res, "requires_escalation", TRUE)]

_escalation_node(st, now) ==
    LET res == escalation_result(st, now)
    IN  [st EXCEPT !.response = res.response,
                   !.node_executed = "escalation",
                   !.requires_escalation = Get(res, "requires_escalation", TRUE),
                   !.escalation_log = Get(res, "escalation_log", EmptyDict)]

\* Variant: the router looks at the confidence alone.
_route_query_ConfidenceOnly(st) ==
    IF st.confidence < RouteThreshold THEN "escalate" ELSE "rag"

\* Variant: the confidence test is inclusive.
_route_query_Inclusive(st) ==
    IF st.category = "unhandled" THEN "escalate"
    ELSE IF st.confidence <= RouteThreshold THEN "escalate"
    ELSE "rag"

_route_query(st) ==
    IF st.category = "unhandled" THEN "escalate"
    ELSE IF st.confidence < RouteThreshold THEN "escalate"
    ELSE "rag"

\* Variant: a node writes its updates into the dict it was given and returns
\* that dict.
state_after_call_InPlace(st, out) == out

\* The dict a node was called with, as it stands when the node returns: the
\* nodes build their result with {**state, ...} and assign to no key of
\* state.
state_after_call(st, out) == st

\* A node call: the dict it received at the call, that dict at the return,
\* and the dict it returned.
Called(node, st, out) ==
    [node |-> node, before |-> st, after |-> state_after_call(st, out), returned |-> out]

\* _build_graph: the entry point, the conditional edges out of the
\* classifier and the edges to END.
EntryPoint == "classifier"

\* Variant: the two branch targets are exchanged.
ConditionalEdges_Swapped == [rag |-> "escalation", escalate |-> "rag_responder"]

ConditionalEdges == [rag |-> "rag_responder", escalate |-> "escalation"]

\* Variant: the responder falls through to the escalation node.
Edges_Chained == [rag_responder |-> "escalation", escalation |-> "END"]

Edges == [rag_responder |-> "END", escalation |-> "END"]

---------------------------------------------------------------------------
(* api_server.py                                                           *)

\* The request handlers that may be in flight at once on the one workflow
\* instance of the module.
Handlers == {1, 2}

NoSession == "None"

Sessions == {NoSession, "user_123"}

\* ChatRequest: the query and the optional session_id.
ChatRequests == [query : Queries, session_id : Sessions]

\* Variant: the session id is prefixed to the query given to the workflow.
chat_query_WithSession(request) ==
    IF request.session_id = NoSession THEN request.query
    ELSE "user_123: The thing is broken"

\* The argument chat passes to workflow.process_query.
chat_query(request) == request.query

\* ChatResponse(...) as chat builds it; timestamp is its default, the clock.
ChatResponse(res, request, now) ==
    [response |-> res.response,
     category |-> res.category,
     confidence |-> res.confidence,
     reasoning |-> res.reasoning,
     node_executed |-> res.node_executed,
     requires_escalation |-> res.requires_escalation,
     retrieved_docs |-> Get(res, "retrieved_docs", <<>>),
     timestamp |-> now,
     session_id |-> request.session_id]

\* Variant: the workflow keeps the state of the running query on the shared
\* instance.
Slot_Shared(h) == 1

\* initial_state is a local of process_query: each invocation has its own.
Slot(h) == h

\* The capability outcomes the handlers are run against.
ApiBackendOutcomes ==
    {o \in BackendOutcomes :
        \/ o.kind = "throw"
        \/ /\ o.kind = "value"
           /\ o.reasoning = <<"Inappropriate request">>
           /\ <<o.category, o.confidence>> \in
                 {<<"products", 95>>, <<"general", 30>>,
                  <<"general", 60>>, <<"unhandled", 95>>}}

ApiSearchOutcomes ==
    {x \in SearchOutcomes :
        x.kind = "throw" \/ x.docs = <<[text |-> "SmartWatch Pro X", len |-> 150]>>}

\* The outcomes a handler's invocation has met; unset until the call is made.
NoOuts ==
    [backend |-> [kind |-> "unset", category |-> "", confidence |-> 0,
                  reasoning |-> <<>>, error |-> ""],
     s1 |-> [kind |-> "unset", docs |-> <<>>, error |-> ""],
     s2 |-> [kind |-> "unset", docs |-> <<>>, error |-> ""],
     g |-> [kind |-> "unset", text |-> <<>>, error |-> ""],
     now |-> 0]

NoReply == [status_code |-> 0]

IdleHandler ==
    [pc |-> "idle",
     request |-> [query |-> "", session_id |-> NoSession],
     outs |-> NoOuts,
     result |-> [node_executed |-> "none"],
     reply |-> NoReply,
     overlap |-> FALSE]

---------------------------------------------------------------------------
(* The state machine                                                       *)

NoResult == [node_executed |-> "none"]

\* No agent of a terminal node has been called yet.
NoAgentResult == [response |-> <<>>]

\* No node has been called yet in this invocation.
NoCall == [node |-> "none", before |-> <<>>, after |-> <<>>, returned |-> <<>>]

\* No method of the escalation agent has been called directly.
NoAgentCall == [op |-> "none"]

Init ==
    /\ pc = "idle"
    /\ state = initial_state("")
    /\ result = NoResult
    /\ executed = <<>>
    /\ calls = <<>>
    /\ events = <<>>
    /\ agent_result = NoAgentResult
    /\ received = NoCall
    /\ agent_call = NoAgentCall
    /\ th = [h \in Handlers |-> IdleHandler]
    /\ wstate = [h \in Handlers |-> initial_state("")]

\* process_query up to graph.invoke: a fresh initial state enters the graph
\* at its entry point.
ProcessQuery(q) ==
    /\ pc \in {"idle", "returned", "raised"}
    /\ pc' = EntryPoint
    /\ state' = initial_state(q)
    /\ result' = NoResult
    /\ executed' = <<>>
    /\ calls' = <<>>
    /\ events' = <<<<"process_query", q>>>>
    /\ agent_result' = NoAgentResult
    /\ received' = NoCall
    /\ UNCHANGED <<api_vars, agent_vars>>

\* The classifier node, the classify call it makes included.
ClassifierNode ==
    /\ pc = "classifier"
    /\ \E out \in BackendOutcomes :
         LET r == classify(state.query, out)
         IN  /\ calls' = calls \o classify_calls(state.query, out)
             /\ executed' = Append(executed, "classifier")
             /\ IF r.ok
                THEN /\ state' = _classifier_node(state, r.val)
                     /\ received' = Called("classifier", state,
                                           _classifier_node(state, r.val))
                     /\ events' = Append(events, <<"classifier", r.val.category>>)
                     /\ pc' = "route"
                ELSE /\ state' = state
                     /\ received' = received
                     /\ events' = events
                     /\ pc' = "raised"
    /\ UNCHANGED <<result, agent_result>>
    /\ UNCHANGED <<api_vars, agent_vars>>

\* Variant: the router decides without tracing its decision.
RouteQuery_Silent ==
    /\ pc = "route"
    /\ pc' = ConditionalEdges[_route_query(state)]
    /\ UNCHANGED <<state, result, executed, calls, events, agent_result, received>>
    /\ UNCHANGED <<api_vars, agent_vars>>

\* The conditional edge out of the classifier.
RouteQuery ==
    /\ pc = "route"
    /\ pc' = ConditionalEdges[_route_query(state)]
    /\ events' = Append(events, <<"router", _route_query(state)>>)
    /\ UNCHANGED <<state, result, executed, calls, agent_result, received>>
    /\ UNCHANGED <<api_vars, agent_vars>>

\* The responder node, the respond call it makes included.
RagResponderNode ==
    /\ pc = "rag_responder"
    /\ \E s1 \in SearchOutcomes, g \in GenerationOutcomes :
         \E s2 \in ChainSearchOutcomes(s1) :
           LET r == respond(state.query, state.category, s1, s2, g)
           IN  /\ calls' = calls \o respond_calls(state.query, state.category, s1, s2, g)
               /\ executed' = Append(executed, "rag_responder")
               /\ IF r.ok
                  THEN /\ state' = _rag_responder_node(state, r.val)
                       /\ received' = Called("rag_responder", state,
                                             _rag_responder_node(state, r.val))
                       /\ agent_result' = r.val
                       /\ events' = Append(events, <<"rag_responder", "done">>)
                       /\ pc' = Edges["rag_responder"]
                  ELSE /\ state' = state
                       /\ received' = received
                       /\ agent_result' = agent_result
                       /\ events' = events
                       /\ pc' = "raised"
    /\ UNCHANGED result
    /\ UNCHANGED <<api_vars, agent_vars>>

\* The escalation node; the clock is read by escalate.
EscalationNode ==
    /\ pc = "escalation"
    /\ \E now \in Timestamps :
         /\ state' = _escalation_node(state, now)
         /\ received' = Called("escalation", state, _escalation_node(state, now))
         /\ agent_result' = escalation_result(state, now)
    /\ executed' = Append(executed, "escalation")
    /\ events' = Append(events, <<"escalation", "done">>)
    /\ pc' = Edges["escalation"]
    /\ UNCHANGED <<result, calls>>
    /\ UNCHANGED <<api_vars, agent_vars>>

\* graph.invoke reaches END and process_query returns the final state.
Return ==
    /\ pc = "END"
    /\ result' = state
    /\ events' = Append(events, <<"complete", state.node_executed>>)
    /\ pc' = "returned"
    /\ UNCHANGED <<state, executed, calls, agent_result, received>>
    /\ UNCHANGED <<api_vars, agent_vars>>

Next ==
    \/ \E q \in Queries : ProcessQuery(q)
    \/ ClassifierNode
    \/ RouteQuery
    \/ RagResponderNode
    \/ EscalationNode
    \/ Return

Spec == Init /\ [][Next]_vars

\* Every pending step of an invocation is eventually taken: a capability
\* call returns or fails, and the graph engine runs the next node.
FairSpec ==
    /\ Spec
    /\ WF_vars(ClassifierNode)
    /\ WF_vars(RouteQuery)
    /\ WF_vars(RagResponderNode)
    /\ WF_vars(EscalationNode)
    /\ WF_vars(Return)

---------------------------------------------------------------------------
(* The chat handlers: several process_query invocations on one instance    *)

InFlight(h) == th[h].pc \notin {"idle", "replied"}

\* Handler h takes a step while another handler is in flight.
Overlaps(h) == th[h].overlap \/ \E o \in Handlers \ {h} : InFlight(o)

\* chat receives a request and calls process_query, which enters the graph
\* with a fresh state.
Chat(h, req) ==
    /\ th[h].pc \in {"idle", "replied"}
    /\ th' = [th EXCEPT ![h] =
                [pc |-> EntryPoint,
                 request |-> req,
                 outs |-> NoOuts,
                 result |-> NoResult,
                 reply |-> NoReply,
                 overlap |-> \E o \in Handlers \ {h} : InFlight(o)]]
    /\ wstate' = [wstate EXCEPT ![Slot(h)] = initial_state(chat_query(req))]
    /\ UNCHANGED <<cli_vars, agent_vars>>

ChatClassifierNode(h) ==
    /\ th[h].pc = "classifier"
    /\ \E out \in ApiBackendOutcomes :
         LET st == wstate[Slot(h)]
             r == classify(st.query, out)
         IN  /\ wstate' = [wstate EXCEPT ![Slot(h)] =
                             IF r.ok THEN _classifier_node(st, r.val) ELSE st]
             /\ th' = [th EXCEPT ![h].pc = IF r.ok THEN "route" ELSE "raised",
                                 ![h].outs.backend = out,
                                 ![h].overlap = Overlaps(h)]
    /\ UNCHANGED <<cli_vars, agent_vars>>

ChatRouteQuery(h) ==
    /\ th[h].pc = "route"
    /\ th' = [th EXCEPT ![h].pc = ConditionalEdges[_route_query(wstate[Slot(h)])],
                        ![h].overlap = Overlaps(h)]
    /\ UNCHANGED <<wstate, cli_vars, agent_vars>>

ChatRagResponderNode(h) ==
    /\ th[h].pc = "rag_responder"
    /\ \E s1 \in ApiSearchOutcomes, g \in GenerationOutcomes :
         \E s2 \in {s1} \cup {x \in ApiSearchOutcomes : x.kind = "throw"} :
           LET st == wstate[Slot(h)]
               r == respond(st.query, st.category, s1, s2, g)
           IN  /\ wstate' = [wstate EXCEPT ![Slot(h)] =
                               IF r.ok THEN _rag_responder_node(st, r.val) ELSE st]
               /\ th' = [th EXCEPT ![h].pc = IF r.ok THEN Edges["rag_responder"]
                                             ELSE "raised",
                                   ![h].outs.s1 = s1,
                                   ![h].outs.s2 = s2,
                                   ![h].outs.g = g,
                                   ![h].overlap = Overlaps(h)]
    /\ UNCHANGED <<cli_vars, agent_vars>>

ChatEscalationNode(h) ==
    /\ th[h].pc = "escalation"
    /\ \E now \in Timestamps :
         /\ wstate' = [wstate EXCEPT ![Slot(h)] = _escalation_node(@, now)]
         /\ th' = [th EXCEPT ![h].pc = Edges["escalation"],
                             ![h].outs.now = now,
                             ![h].overlap = Overlaps(h)]
    /\ UNCHANGED <<cli_vars, agent_vars>>

\* process_query returns the final state and chat builds the ChatResponse;
\* an exception out of process_query becomes an HTTP 500.
ChatReply(h) ==
    /\ th[h].pc \in {"END", "raised"}
    /\ \E now \in Timestamps :
         th' = [th EXCEPT ![h].pc = "replied",
                          ![h].result = IF th[h].pc = "END" THEN wstate[Slot(h)]
                                        ELSE NoResult,
                          ![h].reply = IF th[h].pc = "END"
                                       THEN ChatResponse(wstate[Slot(h)], th[h].request, now)
                                       ELSE [status_code |-> 500],
                          ![h].overlap = Overlaps(h)]
    /\ UNCHANGED <<wstate, cli_vars, agent_vars>>

ApiNext ==
    \E h \in Handlers :
        \/ \E req \in ChatRequests : Chat(h, req)
        \/ ChatClassifierNode(h)
        \/ ChatRouteQuery(h)
        \/ ChatRagResponderNode(h)
        \/ ChatEscalationNode(h)
        \/ ChatReply(h)

ApiSpec == Init /\ [][ApiNext]_vars

---------------------------------------------------------------------------
(* Direct calls of the escalation agent, as test_escalation_agent makes    *)
(* them: no classifier and no router stand before the agent.               *)

\* escalate takes a str and a float: the caller may pass any.
DirectCategories == Categories \cup {"billing"}

DirectConfidences == Confidences \cup {ConfMin - 1, ConfMax + 1}

Escalate(query, category, confidence, reasoning) ==
    /\ agent_call.op = "none"
    /\ \E now \in Timestamps :
         agent_call' = [op |-> "escalate",
                        query |-> query,
                        category |-> category,
                        confidence |-> confidence,
                        reasoning |-> reasoning,
                        ret |-> escalate(query, category, confidence, reasoning, now)]
    /\ UNCHANGED <<cli_vars, api_vars>>

Clarify(query) ==
    /\ agent_call.op = "none"
    /\ agent_call' = [op |-> "generate_clarification_request",
                      query |-> query,
                      ret |-> generate_clarification_request(query)]
    /\ UNCHANGED <<cli_vars, api_vars>>

\* The caller prints the response and goes on to its next test case.
PrintResponse ==
    /\ agent_call.op # "none"
    /\ agent_call' = NoAgentCall
    /\ UNCHANGED <<cli_vars, api_vars>>

AgentNext ==
    \/ \E q \in Queries, c \in DirectCategories, x \in DirectConfidences,
          r \in Reasonings : Escalate(q, c, x, r)
    \/ \E q \in Queries : Clarify(q)
    \/ PrintResponse

AgentSpec == Init /\ [][AgentNext]_vars

TypeOK ==
    /\ pc \in {"idle", "classifier", "route", "rag_responder", "escalation",
               "END", "returned", "raised"}
    /\ state.category \in Categories
    /\ state.confidence \in Confidences

---------------------------------------------------------------------------
(* Reading a state                                                         *)

TerminalNodes == {"rag_responder", "escalation"}

\* The orchestrator's state, read off the nodes this invocation has executed.
OrchState ==
    IF executed = <<>> THEN "INIT"
    ELSE IF executed[Len(executed)] = "classifier" THEN "CLASSIFIED"
    ELSE IF executed[Len(executed)] = "rag_responder" THEN "RESPONDED"
    ELSE "ESCALATED"

\* The executions of node n in this invocation.
Executions(n) == {i \in DOMAIN executed : executed[i] = n}

\* The calls of capability c in this invocation.
CallsOf(c) == {i \in DOMAIN calls : calls[i].cap = c}

Populated(d) == DOMAIN d # {}

\* The router has just decided: its decision is the last trace event.
Routed ==
    /\ pc \in {"rag_responder", "escalation"}
    /\ events # <<>>
    /\ events[Len(events)][1] = "router"

RouterDecision == events[Len(events)][2]

---------------------------------------------------------------------------
(* Claims                                                                  *)

\* C1: the router is total and deterministic: for every category in
\* {products, returns, general, unhandled} and every confidence in [0,1] it
\* returns exactly one of escalate and respond; escalate for unhandled at any
\* confidence; for any other category escalate iff confidence < 0.7, so that
\* confidence 0.7 itself yields respond.
C1_RouterPolicy ==
    Routed =>
        /\ state.category \in {"products", "returns", "general", "unhandled"}
        /\ state.confidence \in 0..100
        /\ RouterDecision \in {"rag", "escalate"}
        /\ state.category = "unhandled" => RouterDecision = "escalate"
        /\ state.category # "unhandled" =>
              (RouterDecision = "escalate" <=> state.confidence < 70)
        /\ (RouterDecision = "rag") = (pc = "rag_responder")
        /\ (RouterDecision = "escalate") = (pc = "escalation")

C1_Witness ==
    /\ Routed
    /\ state.category = "products"
    /\ state.confidence = 70
    /\ RouterDecision = "rag"

\* C2: in every invocation exactly one of the two terminal nodes executes,
\* never both and never neither, and the returned node_executed names it; it
\* is never "classifier" and never the empty initial value.
C2_ExactlyOneTerminal ==
    /\ Cardinality(Executions("rag_responder")) + Cardinality(Executions("escalation")) <= 1
    /\ pc = "returned" =>
          /\ Cardinality(Executions("rag_responder"))
               + Cardinality(Executions("escalation")) = 1
          /\ result.node_executed \in {"rag_responder", "escalation"}
          /\ Executions(result.node_executed) # {}

C2_Witness ==
    /\ pc = "returned"
    /\ result.node_executed = "rag_responder"
    /\ executed = <<"classifier", "rag_responder">>

\* C3: within an invocation the orchestrator only moves INIT -> CLASSIFIED,
\* CLASSIFIED -> RESPONDED and CLASSIFIED -> ESCALATED, the move out of
\* CLASSIFIED is the router's outcome on the classified state, RESPONDED and
\* ESCALATED are left only by a new invocation, and no node executes twice.
C3_Transitions ==
    [][ \/ pc' = EntryPoint /\ executed' = <<>>
        \/ /\ OrchState' # OrchState =>
                <<OrchState, OrchState'>> \in
                    {<<"INIT", "CLASSIFIED">>,
                     <<"CLASSIFIED", "RESPONDED">>,
                     <<"CLASSIFIED", "ESCALATED">>}
           /\ OrchState = "CLASSIFIED" /\ OrchState' = "RESPONDED" =>
                _route_query(state) = "rag"
           /\ OrchState = "CLASSIFIED" /\ OrchState' = "ESCALATED" =>
                _route_query(state) = "escalate"
           /\ OrchState \in {"RESPONDED", "ESCALATED"} => executed' = executed
           /\ \A n \in {"classifier", "rag_responder", "escalation"} :
                Cardinality({i \in DOMAIN executed' : executed'[i] = n}) <= 1
      ]_vars

C3_Witness ==
    /\ pc = "returned"
    /\ OrchState = "ESCALATED"
    /\ executed = <<"classifier", "escalation">>

\* The raw outcome of the classification backend in this invocation.
BackendOut == calls[1].out

Classified == executed # <<>> /\ calls # <<>> /\ calls[1].cap = "classify"

\* The backend call failed: it threw, gave no value, or gave a value outside
\* the category or confidence domain.
BackendFailed ==
    \/ BackendOut.kind # "value"
    \/ BackendOut.category \notin {"products", "returns", "general", "unhandled"}
    \/ BackendOut.confidence \notin 0..100

SomeCallThrew == \E i \in DOMAIN calls : calls[i].out.kind = "throw"

\* The texts of the errors the capabilities and the schema can raise.
ErrorTexts ==
    {o.error : o \in {b \in BackendOutcomes : b.kind = "throw"}}
    \cup {o.error : o \in {x \in SearchOutcomes : x.kind = "throw"}}
    \cup {o.error : o \in {g \in GenerationOutcomes : g.kind = "throw"}}
    \cup {"ValidationError", "AttributeError"}

MessageKind(r) ==
    IF r = <<>> THEN "empty"
    ELSE IF r = apology THEN "apology"
    ELSE IF Head(r) = HandoffHeader THEN "handoff"
    ELSE IF Head(r) = ClarificationHeader THEN "clarification"
    ELSE IF \E g \in GenerationOutcomes : g.kind = "text" /\ g.text = r THEN "answer"
    ELSE "other"

\* C4: every invocation reaches a terminal state, RESPONDED or ESCALATED,
\* whether each capability call returns a value or fails, provided every
\* pending step is eventually taken.
C4_Terminates ==
    (pc = "classifier") ~> (pc = "END" /\ OrchState \in {"RESPONDED", "ESCALATED"})

C4_Witness ==
    /\ pc = "END"
    /\ OrchState = "RESPONDED"
    /\ SomeCallThrew

\* C5: when the backend call fails in any way, a value outside the domains
\* included, classify raises nothing and returns category unhandled,
\* confidence 0.0 and a reasoning starting with "Classification error: ",
\* after exactly one backend attempt.
C5_ClassifyFallback ==
    (pc # "idle" /\ Classified /\ BackendFailed) =>
        /\ pc # "raised"
        /\ state.category = "unhandled"
        /\ state.confidence = 0
        /\ state.reasoning # <<>>
        /\ Head(state.reasoning) = "Classification error: "
        /\ Cardinality(CallsOf("classify")) = 1

C5_Witness ==
    /\ pc = "route"
    /\ Classified
    /\ BackendOut.kind = "value"
    /\ BackendOut.category = "products"
    /\ BackendOut.confidence = 101
    /\ state.category = "unhandled"

\* C6: when the backend throws, the query goes to the escalation node, which
\* hands off to a human (no clarification request, although 0.0 < 0.5): the
\* result has category unhandled, confidence 0.0, node_executed escalation,
\* requires_escalation true, a populated escalation_log and the reason
\* "requires human assistance".
C6_BackendThrowEscalates ==
    (pc = "returned" /\ Classified /\ BackendOut.kind = "throw") =>
        /\ executed = <<"classifier", "escalation">>
        /\ result.category = "unhandled"
        /\ result.confidence = 0
        /\ result.node_executed = "escalation"
        /\ result.requires_escalation = TRUE
        /\ Populated(result.escalation_log)
        /\ MessageKind(result.response) = "handoff"
        /\ result.response[3] = "This query requires human assistance"

C6_Witness ==
    /\ pc = "returned"
    /\ Classified
    /\ BackendOut.kind = "throw"
    /\ result.requires_escalation = TRUE

HandoffBranch ==
    /\ result.node_executed = "escalation"
    /\ ~(result.confidence < 50 /\ result.category # "unhandled")

\* respond succeeded and the search returned at least one fragment.
AnsweredWithDocs ==
    /\ result.node_executed = "rag_responder"
    /\ ~SomeCallThrew
    /\ \E i \in CallsOf("search") : calls[i].out.docs # <<>>

\* C8 as stated: every result has exactly one of retrieved_docs and
\* escalation_log populated, retrieved_docs after the responder and
\* escalation_log after the escalation node, on every path.
C8_ExactlyOnePopulated ==
    pc = "returned" =>
        /\ result.node_executed = "rag_responder" =>
              result.retrieved_docs # <<>> /\ ~Populated(result.escalation_log)
        /\ result.node_executed = "escalation" =>
              Populated(result.escalation_log) /\ result.retrieved_docs = <<>>

\* C8 amended: at most one of the two is populated: retrieved_docs exactly
\* when the responder ran and succeeded with at least one fragment,
\* escalation_log exactly when the escalation node took the hand-off branch;
\* neither on the clarification branch, on the responder's failure path or
\* after a search that found nothing.
C8_PopulatedExactlyWhen ==
    pc = "returned" =>
        /\ (result.retrieved_docs # <<>>) <=> AnsweredWithDocs
        /\ Populated(result.escalation_log) <=> HandoffBranch
        /\ ~(AnsweredWithDocs /\ HandoffBranch)

C8_Witness ==
    /\ pc = "returned"
    /\ result.node_executed = "escalation"
    /\ ~HandoffBranch
    /\ ~Populated(result.escalation_log)
    /\ result.retrieved_docs = <<>>

\* C9: a completed result never has both populated: retrieved_docs is
\* non-empty only after the responder, escalation_log only after the
\* escalation node.
C9_NeverBoth ==
    pc = "returned" =>
        /\ result.retrieved_docs # <<>> => result.node_executed = "rag_responder"
        /\ Populated(result.escalation_log) => result.node_executed = "escalation"
        /\ ~(result.retrieved_docs # <<>> /\ Populated(result.escalation_log))

C9_Witness ==
    /\ pc = "returned"
    /\ result.node_executed = "rag_responder"
    /\ Len(result.retrieved_docs) = 4
    /\ ~Populated(result.escalation_log)

\* A result for a classification with a valid category and confidence below 0.5.
ClarificationCase ==
    /\ pc = "returned"
    /\ result.category # "unhandled"
    /\ result.confidence < 50

\* C10 as stated: for a category other than unhandled and a confidence in
\* [0, 0.5) the result of process_query carries needs_clarification = true
\* and requires_escalation = false.
C10_ResultCarriesFlag ==
    ClarificationCase =>
        /\ "needs_clarification" \in DOMAIN result
        /\ result.needs_clarification = TRUE
        /\ result.requires_escalation = FALSE

\* C10 amended: in that case the escalation node emits the clarification
\* request, whose own dict has needs_clarification = true and
\* requires_escalation = false, and the result carries requires_escalation =
\* false; the result has the fields of the workflow state only, so
\* needs_clarification is not among them.
C10_ClarificationEmitted ==
    ClarificationCase =>
        /\ result.node_executed = "escalation"
        /\ result.response = generate_clarification_request(result.query).response
        /\ MessageKind(result.response) = "clarification"
        /\ generate_clarification_request(result.query).needs_clarification = TRUE
        /\ result.requires_escalation = FALSE
        /\ DOMAIN result = DOMAIN initial_state(result.query)
        /\ "needs_clarification" \notin DOMAIN result

C10_Witness ==
    /\ ClarificationCase
    /\ result.category = "general"
    /\ result.confidence = 30
    /\ result.requires_escalation = FALSE

\* C11: for a category other than unhandled and a confidence in [0.5, 0.7),
\* 0.5 included, process_query hands off to a human: requires_escalation is
\* true, the reason is "needs clarification" and an escalation_log is
\* produced.
C11_MidConfidenceHandoff ==
    (pc = "returned" /\ result.category # "unhandled"
       /\ result.confidence >= 50 /\ result.confidence < 70) =>
        /\ result.node_executed = "escalation"
        /\ MessageKind(result.response) = "handoff"
        /\ result.response[3] = "The query needs clarification"
        /\ result.requires_escalation = TRUE
        /\ Populated(result.escalation_log)

C11_Witness ==
    /\ pc = "returned"
    /\ result.category = "general"
    /\ result.confidence = 50
    /\ result.requires_escalation = TRUE

\* C12: for category unhandled at any confidence in [0,1], below 0.5 and at
\* or above 0.7 included, process_query hands off with the reason "requires
\* human assistance", requires_escalation true and a response holding the
\* support email.
C12_UnhandledHandoff ==
    (pc = "returned" /\ result.category = "unhandled") =>
        /\ result.node_executed = "escalation"
        /\ MessageKind(result.response) = "handoff"
        /\ result.response[3] = "This query requires human assistance"
        /\ result.requires_escalation = TRUE
        /\ \E i \in DOMAIN result.response : result.response[i] = "support@techgear.com"

C12_Witness ==
    /\ pc = "returned"
    /\ result.category = "unhandled"
    /\ result.confidence = 95
    /\ result.reasoning = <<"Inappropriate request">>
    /\ result.requires_escalation = TRUE

\* A search or generation call of this invocation failed.
RespondThrew ==
    \E i \in DOMAIN calls :
        calls[i].cap \in {"search", "generate"} /\ calls[i].out.kind = "throw"

\* C13: when retrieval or generation fails, respond returns the fixed apology
\* pointing to the support email with success false, no retrieved_docs and
\* num_docs 0, and the error text is neither in that response nor anywhere
\* in the result process_query returns.
C13_RespondFailure ==
    /\ (pc \in {"END", "returned"} /\ RespondThrew) =>
          /\ agent_result.response = apology
          /\ agent_result.response[2] = "support@techgear.com"
          /\ agent_result.success = FALSE
          /\ agent_result.retrieved_docs = <<>>
          /\ agent_result.num_docs = 0
          /\ \A i \in DOMAIN agent_result.response :
                agent_result.response[i] \notin ErrorTexts
    /\ (pc = "returned" /\ RespondThrew) =>
          /\ "error" \notin DOMAIN result
          /\ result.response = apology
          /\ result.retrieved_docs = <<>>
          /\ \A i \in DOMAIN result.response : result.response[i] \notin ErrorTexts
          /\ \A i \in DOMAIN result.reasoning : result.reasoning[i] \notin ErrorTexts
          /\ \A i \in DOMAIN result.context : result.context[i] \notin ErrorTexts

C13_Witness ==
    /\ pc = "returned"
    /\ RespondThrew
    /\ calls[Len(calls)].cap = "generate"
    /\ agent_result.success = FALSE
    /\ agent_result.error = "429 quota exceeded"

\* C14: the responder runs only after the router returned respond, that is
\* with a category in {products, returns, general} and a confidence of at
\* least 0.7, never with unhandled, so the prompt it picks is the category's
\* own; every result of the responder has requires_escalation false.
C14_ResponderOnlyAfterRespond ==
    /\ (pc = "rag_responder" \/ Executions("rag_responder") # {}) =>
          /\ \E i \in DOMAIN events : events[i] = <<"router", "rag">>
          /\ state.category \in {"products", "returns", "general"}
          /\ state.confidence >= 70
          /\ \A i \in CallsOf("generate") : calls[i].arg = state.category
    /\ (pc = "returned" /\ result.node_executed = "rag_responder") =>
          result.requires_escalation = FALSE

C14_Witness ==
    /\ pc = "returned"
    /\ result.node_executed = "rag_responder"
    /\ result.category = "returns"
    /\ CallsOf("generate") # {}
    /\ result.requires_escalation = FALSE

\* C15: within one invocation no capability is called a second time:
\* classification is called exactly once, and search and generation at most
\* once each.
C15_EachCapabilityOnce ==
    pc \in {"END", "returned"} =>
        /\ Cardinality(CallsOf("classify")) = 1
        /\ Cardinality(CallsOf("search")) <= 1
        /\ Cardinality(CallsOf("generate")) <= 1

\* C16: whenever the router is evaluated the state's category is one of the
\* four and its confidence lies in [0,1], whatever the backend produced.
C16_RouterInputInDomain ==
    pc = "route" =>
        /\ state.category \in {"products", "returns", "general", "unhandled"}
        /\ state.confidence >= 0
        /\ state.confidence <= 100

C16_Witness ==
    /\ pc = "route"
    /\ BackendOut.kind = "value"
    /\ BackendOut.category = "billing"
    /\ BackendOut.confidence = 101
    /\ state.category = "unhandled"
    /\ state.confidence = 0

\* C20: on the hand-off branch the result's escalation_log is a record with
\* exactly the fields timestamp, query, category, confidence, reasoning and
\* status; its query, category, confidence and reasoning are those of the
\* classified state, its status is "escalated", and requires_escalation is
\* true.
C20_EscalationLogRecord ==
    (pc = "returned" /\ HandoffBranch) =>
        /\ DOMAIN result.escalation_log =
              {"timestamp", "query", "category", "confidence", "reasoning", "status"}
        /\ result.escalation_log.query = result.query
        /\ result.escalation_log.category = result.category
        /\ result.escalation_log.confidence = result.confidence
        /\ result.escalation_log.reasoning = result.reasoning
        /\ result.escalation_log.status = "escalated"
        /\ result.escalation_log.timestamp \in Timestamps
        /\ result.requires_escalation = TRUE
        /\ ~BackendFailed =>
              /\ result.escalation_log.category = BackendOut.category
              /\ result.escalation_log.confidence = BackendOut.confidence
              /\ result.escalation_log.reasoning = BackendOut.reasoning

C20_Witness ==
    /\ pc = "returned"
    /\ HandoffBranch
    /\ result.category = "products"
    /\ result.confidence = 60
    /\ result.escalation_log.status = "escalated"

---------------------------------------------------------------------------
(* Claims about several invocations (ApiSpec)                              *)

Replied(h) == th[h].pc = "replied" /\ th[h].reply # [status_code |-> 500]

\* process_query run alone on a request, against given capability outcomes.
SoloResult(request, o) ==
    LET q == chat_query(request)
        st1 == _classifier_node(initial_state(q), classify(q, o.backend).val)
    IN  IF _route_query(st1) = "rag"
        THEN _rag_responder_node(st1, respond(q, st1.category, o.s1, o.s2, o.g).val)
        ELSE _escalation_node(st1, o.now)

\* C17: the session id has no influence: two handled requests with the same
\* query and the same capability outcomes, whatever their session ids, have
\* the same category, confidence, reasoning, node_executed,
\* requires_escalation, retrieved_docs and response; and each reply carries
\* the session id of its request unchanged.
C17_SessionIdIgnored ==
    /\ \A h \in Handlers :
          Replied(h) => th[h].reply.session_id = th[h].request.session_id
    /\ \A h1, h2 \in Handlers :
          (Replied(h1) /\ Replied(h2)
             /\ th[h1].request.query = th[h2].request.query
             /\ th[h1].outs = th[h2].outs) =>
              /\ th[h1].reply.category = th[h2].reply.category
              /\ th[h1].reply.confidence = th[h2].reply.confidence
              /\ th[h1].reply.reasoning = th[h2].reply.reasoning
              /\ th[h1].reply.node_executed = th[h2].reply.node_executed
              /\ th[h1].reply.requires_escalation = th[h2].reply.requires_escalation
              /\ th[h1].reply.retrieved_docs = th[h2].reply.retrieved_docs
              /\ th[h1].reply.response = th[h2].reply.response

C17_Witness ==
    /\ Replied(1)
    /\ Replied(2)
    /\ th[1].request.query = th[2].request.query
    /\ th[1].outs = th[2].outs
    /\ th[1].request.session_id = NoSession
    /\ th[2].request.session_id = "user_123"
    /\ th[2].reply.session_id = "user_123"
    /\ th[1].reply.node_executed = "escalation"

\* C18: with a deterministic backend (the same query gets the same
\* classification outcome), two invocations with the same query have the
\* same category, confidence, node_executed and requires_escalation,
\* whatever the instance has processed before.
C18_SameQuerySameRoute ==
    \A h1, h2 \in Handlers :
        (Replied(h1) /\ Replied(h2)
           /\ th[h1].request.query = th[h2].request.query
           /\ th[h1].outs.backend = th[h2].outs.backend) =>
            /\ th[h1].result.category = th[h2].result.category
            /\ th[h1].result.confidence = th[h2].result.confidence
            /\ th[h1].result.node_executed = th[h2].result.node_executed
            /\ th[h1].result.requires_escalation = th[h2].result.requires_escalation

C18_Witness ==
    /\ Replied(1)
    /\ Replied(2)
    /\ th[1].request.query = th[2].request.query
    /\ th[1].outs.backend = th[2].outs.backend
    /\ th[1].outs.g.kind = "text"
    /\ th[2].outs.g.kind = "throw"
    /\ th[1].result.node_executed = "rag_responder"
    /\ th[2].result.node_executed = "rag_responder"

\* C19: invocations interleaved on the shared instance each work on their
\* own fresh state and return what they would return alone: a started
\* invocation's state is the initial state of its own query, a running one's
\* state holds its own query whatever the other handlers do, and its final
\* state and its result are those of the solo run.
C19_Isolation ==
    \A h \in Handlers :
        /\ th[h].pc = "classifier" =>
              wstate[Slot(h)] = initial_state(th[h].request.query)
        /\ InFlight(h) => wstate[Slot(h)].query = th[h].request.query
        /\ th[h].pc = "END" =>
              wstate[Slot(h)] = SoloResult(th[h].request, th[h].outs)
        /\ Replied(h) =>
              th[h].result = SoloResult(th[h].request, th[h].outs)

C19_Witness ==
    /\ Replied(1)
    /\ Replied(2)
    /\ th[1].overlap
    /\ th[2].overlap
    /\ th[1].request.query # th[2].request.query
    /\ th[1].result.node_executed = "rag_responder"
    /\ th[2].result.node_executed = "escalation"

---------------------------------------------------------------------------
(* Claims about the responder's result, the trace and the hand-off         *)

\* The fragments the first search call of this invocation returned.
FirstSearchDocs == calls[2].out.docs

\* The generation call was made, after both retrievals, and failed.
GenerationFailed ==
    \E i \in CallsOf("generate") : calls[i].out.kind = "throw"

\* A result for a valid category at a confidence of at least 0.7.
HighConfidenceCase ==
    /\ pc = "returned"
    /\ result.category \in {"products", "returns", "general"}
    /\ result.confidence >= 70

\* C21 as stated: for every classification with a category in {products,
\* returns, general} and a confidence of at least 0.7, process_query returns
\* node_executed rag_responder, requires_escalation false and a non-empty
\* retrieved_docs.
C21_HighConfidenceDocs ==
    HighConfidenceCase =>
        /\ result.node_executed = "rag_responder"
        /\ result.requires_escalation = FALSE
        /\ result.retrieved_docs # <<>>

\* C21 amended: in that case process_query returns node_executed
\* rag_responder and requires_escalation false, and retrieved_docs is
\* non-empty exactly when both retrievals and the generation succeeded and
\* the search returned at least one fragment; it is empty after a failure
\* and after a search that found nothing.
C21_HighConfidenceResponder ==
    HighConfidenceCase =>
        /\ result.node_executed = "rag_responder"
        /\ result.requires_escalation = FALSE
        /\ (result.retrieved_docs # <<>>) <=>
              (~RespondThrew /\ FirstSearchDocs # <<>>)

C21_Witness ==
    /\ HighConfidenceCase
    /\ result.category = "products"
    /\ result.confidence = 95
    /\ result.node_executed = "rag_responder"
    /\ result.retrieved_docs # <<>>

\* The trace events of the node transitions, without the banners of
\* process_query.
NodeEvents ==
    SelectSeq(events, LAMBDA e : e[1] \in {"classifier", "router", "rag_responder", "escalation"})

\* The result computed from the query and the capability outcomes alone,
\* with no trace emitted.
UntracedResult ==
    LET q == calls[1].arg
        st1 == _classifier_node(initial_state(q), classify(q, BackendOut).val)
        s1 == calls[2].out
        s2 == IF Len(calls) >= 3 THEN calls[3].out ELSE s1
        g == IF Len(calls) >= 4 THEN calls[4].out
             ELSE [kind |-> "text", text |-> <<>>, error |-> ""]
    IN  IF _route_query(st1) = "rag"
        THEN _rag_responder_node(st1, respond(q, st1.category, s1, s2, g).val)
        ELSE _escalation_node(st1, Get(result.escalation_log, "timestamp", 1))

C23_PreviewsSurviveGenerationFailure ==
    (pc = "returned" /\ GenerationFailed) =>
        /\ Len(result.retrieved_docs) = Len(FirstSearchDocs)
        /\ \A i \in DOMAIN result.retrieved_docs :
              result.retrieved_docs[i].text = FirstSearchDocs[i].text

\* C23 amended: retrieved_docs holds one truncated preview per retrieved
\* fragment (at most 200 characters of it, then "...") only when both
\* retrievals and the generation succeeded; when retrieval succeeds and
\* generation then fails the fragments are dropped: retrieved_docs is empty
\* and num_docs is 0.
C23_PreviewsOnlyOnSuccess ==
    (pc = "returned" /\ result.node_executed = "rag_responder") =>
        /\ GenerationFailed =>
              /\ result.retrieved_docs = <<>>
              /\ agent_result.retrieved_docs = <<>>
              /\ agent_result.num_docs = 0
        /\ ~RespondThrew =>
              /\ Len(result.retrieved_docs) = Len(FirstSearchDocs)
              /\ \A i \in DOMAIN result.retrieved_docs :
                    /\ result.retrieved_docs[i].text = FirstSearchDocs[i].text
                    /\ result.retrieved_docs[i].len <= 200
                    /\ FirstSearchDocs[i].len <= 200 =>
                          result.retrieved_docs[i].len = FirstSearchDocs[i].len
                    /\ FirstSearchDocs[i].len > 200 =>
                          result.retrieved_docs[i].len = 200
                    /\ result.retrieved_docs[i].suffix = "..."

C23_Witness ==
    /\ pc = "returned"
    /\ GenerationFailed
    /\ Len(FirstSearchDocs) = 4
    /\ result.retrieved_docs = <<>>
    /\ result.response = apology

\* C24: escalate, called directly with any category and confidence, always
\* returns requires_escalation true and an escalation_log of status
\* "escalated", never a clarification request (not even for a valid category
\* at confidence 0.3), and picks the reason by first match: unhandled ->
\* "requires human assistance", else confidence < 0.7 -> "needs
\* clarification", else "needs specialized support".
C24_DirectEscalate ==
    agent_call.op = "escalate" =>
        /\ agent_call.ret.requires_escalation = TRUE
        /\ Populated(agent_call.ret.escalation_log)
        /\ agent_call.ret.escalation_log.status = "escalated"
        /\ MessageKind(agent_call.ret.response) = "handoff"
        /\ "needs_clarification" \notin DOMAIN agent_call.ret
        /\ agent_call.ret.response[3] =
              IF agent_call.category = "unhandled"
              THEN "This query requires human assistance"
              ELSE IF agent_call.confidence < 70
                   THEN "The query needs clarification"
                   ELSE "This request needs specialized support"

C24_Witness ==
    /\ agent_call.op = "escalate"
    /\ agent_call.category = "general"
    /\ agent_call.confidence = 30
    /\ agent_call.ret.requires_escalation = TRUE
    /\ agent_call.ret.response[3] = "The query needs clarification"

\* C25: through process_query the reason "needs specialized support" is
\* unreachable: whenever escalate is called the category is unhandled or the
\* confidence is below 0.7, and no result carries that reason.
C25_SpecializedSupportUnreachable ==
    /\ pc = "escalation" => (state.category = "unhandled" \/ state.confidence < 70)
    /\ (Executions("escalation") # {} /\ "escalation_log" \in DOMAIN agent_result) =>
          /\ agent_result.escalation_log.category = "unhandled"
                \/ agent_result.escalation_log.confidence < 70
          /\ agent_result.response[3] # "This request needs specialized support"
    /\ pc = "returned" =>
          \A i \in DOMAIN result.response :
              result.response[i] # "This request needs specialized support"

C25_Witness ==
    /\ pc = "returned"
    /\ "escalation_log" \in DOMAIN agent_result
    /\ result.category = "returns"
    /\ result.confidence = 69
    /\ result.response[3] = "The query needs clarification"

C27_NumDocsAndOrder ==
    Executions("rag_responder") # {} =>
        /\ agent_result.success = ~RespondThrew
        /\ agent_result.success =>
              /\ agent_result.num_docs = Len(agent_result.retrieved_docs)
              /\ agent_result.num_docs = Len(FirstSearchDocs)
              /\ agent_result.num_docs <= 4
              /\ \A i \in DOMAIN agent_result.retrieved_docs :
                    agent_result.retrieved_docs[i].text = FirstSearchDocs[i].text
        /\ ~agent_result.success =>
              /\ agent_result.num_docs = 0
              /\ agent_result.retrieved_docs = <<>>

C27_Witness ==
    /\ pc = "END"
    /\ Executions("rag_responder") # {}
    /\ agent_result.success
    /\ agent_result.num_docs = 4
    /\ FirstSearchDocs[1] # FirstSearchDocs[2]
    /\ agent_result.retrieved_docs[1].text = FirstSearchDocs[1].text

\* C28: in every result requires_escalation is true exactly when
\* escalation_log is populated, and both exactly when node_executed is
\* escalation and not (confidence < 0.5 and category # unhandled); a
\* clarification result has node_executed escalation, requires_escalation
\* false and an empty escalation_log.
C28_EscalationFlagIffLog ==
    pc = "returned" =>
        /\ (result.requires_escalation = TRUE) <=> Populated(result.escalation_log)
        /\ (result.requires_escalation = TRUE) <=>
              /\ result.node_executed = "escalation"
              /\ ~(result.confidence < 50 /\ result.category # "unhandled")
        /\ MessageKind(result.response) = "clarification" =>
              /\ result.node_executed = "escalation"
              /\ result.requires_escalation = FALSE
              /\ ~Populated(result.escalation_log)

C28_Witness ==
    /\ pc = "returned"
    /\ MessageKind(result.response) = "clarification"
    /\ result.category = "products"
    /\ result.confidence = 49
    /\ result.requires_escalation = FALSE
    /\ ~Populated(result.escalation_log)

\* C29: a retrieval or generation failure never diverts the query to
\* escalation: the escalation node is not executed and the result has
\* node_executed rag_responder, requires_escalation false and an empty
\* escalation_log, with the apology as response.
C29_FailureStaysOnResponder ==
    RespondThrew =>
        /\ pc \in {"END", "returned"}
        /\ Executions("escalation") = {}
        /\ executed = <<"classifier", "rag_responder">>
        /\ state.node_executed = "rag_responder"
        /\ state.requires_escalation = FALSE
        /\ ~Populated(state.escalation_log)
        /\ state.response = apology
        /\ pc = "returned" =>
              /\ result.node_executed = "rag_responder"
              /\ result.requires_escalation = FALSE
              /\ ~Populated(result.escalation_log)
              /\ result.response = apology

C29_Witness ==
    /\ pc = "returned"
    /\ RespondThrew
    /\ Len(calls) = 2
    /\ calls[2].out.kind = "throw"
    /\ result.node_executed = "rag_responder"
    /\ result.response = apology

\* The argument process_query was called with, as its banner prints it.
ProcessQueryArg == events[1][2]

\* C30: the terminal nodes leave query, category, confidence and reasoning
\* unchanged: the result's query is the argument of process_query and its
\* category, confidence and reasoning are exactly what classify returned
\* (the backend's value, or the fallback after a failure), on the respond
\* and on the escalate path.
C30_ClassificationPreserved ==
    pc = "returned" =>
        /\ result.query = ProcessQueryArg
        /\ calls[1].arg = ProcessQueryArg
        /\ received.returned.query = received.before.query
        /\ received.returned.category = received.before.category
        /\ received.returned.confidence = received.before.confidence
        /\ received.returned.reasoning = received.before.reasoning
        /\ ~BackendFailed =>
              /\ result.category = BackendOut.category
              /\ result.confidence = BackendOut.confidence
              /\ result.reasoning = BackendOut.reasoning
        /\ BackendFailed =>
              /\ result.category = "unhandled"
              /\ result.confidence = 0
              /\ Head(result.reasoning) = "Classification error: "

C30_Witness ==
    /\ pc = "returned"
    /\ result.node_executed = "rag_responder"
    /\ result.query = "The thing is broken"
    /\ result.category = "returns"
    /\ result.confidence = 88
    /\ result.reasoning = <<"Too vague to classify accurately">>
    /\ BackendOut.category = "returns"

====
